---- MODULE Spec2Model ----
(***************************************************************************)
(* The resilience layer of the HTTP client in src/src/services/api.ts:     *)
(* the sliding-window admission check, the request interceptor, the        *)
(* response interceptors and the retry logic around the shared retryCount. *)
(*                                                                         *)
(* JavaScript runs the interceptors on one thread: a handler is atomic up  *)
(* to its return or its first await, so each action below is one such      *)
(* synchronous run.  Requests in flight interleave between the actions.    *)
(*                                                                         *)
(* Six specifications share the actions and differ in the inputs they      *)
(* draw: Spec (the admission window and the retries, over every class of   *)
(* answer), SpecTagging (the credential store and the request headers),    *)
(* SpecRedirect (the page and the redirect timer of the 401 branch),       *)
(* SpecNotify (the notifications, with administrative endpoints and        *)
(* error texts of client errors), SpecAdmission (the admission check next  *)
(* to the credential store) and SpecCredential (the credential store over  *)
(* more than one window).                                                  *)
(***************************************************************************)
EXTENDS Integers, Sequences, FiniteSets, TLC

(***************************************************************************)
(* Bounds of the model.                                                    *)
(***************************************************************************)
\* Transport attempts one call may make before the model stops re-issuing it.
MaxSends == 4

\* api.ts:7   maxRetries = config.apiRetryAttempts || 3: the configured number
\* of attempts, any positive integer; the model runs with 2.
maxRetries == 2
\* api.ts:11  rateLimitConfig.maxRequests, the capacity of the window: 200 in
\* the source, scaled down to keep the queue short.
maxRequests == 2
\* api.ts:176 requestQueue.slice(-50): the records a 429 keeps, 50 in the
\* source, scaled down with maxRequests (fewer than the capacity, as there).
keepLast == 1
\* Most admissions within one window the model follows.
MaxQueue == maxRequests + 1

\* The calls the application has in flight at the same time (reusable slots).
Reqs == {"r1", "r2"}

\* The instants (ms) at which the model lets Date.now() be observed.
Instants == {0, 1000, 60000}

(***************************************************************************)
(* Program constants.                                                      *)
(***************************************************************************)
\* api.ts:12  rateLimitConfig.windowMs
windowMs == 60000
\* api.ts:188 config.apiRetryDelay || 1000
baseDelay == 1000
\* api.ts:171 the delay of a 429 without a retry-after header
defaultRetryAfterMs == 5000
\* api.ts:144 the delay of the redirect after a 401
redirectDelay == 1500

\* api.ts:189 Math.random() * 1000 lies in [0, 1000): the two ends of the range
Jitters == {0, 999}

(***************************************************************************)
(* Endpoints are sequences of pieces of the URL text, so that               *)
(* String.prototype.includes is a search for a contiguous run of pieces.   *)
(***************************************************************************)
Endpoints == { <<"/api", "/auth", "/login">>, <<"/articles">> }

\* endpoint.includes(pattern)
Includes(endpoint, pattern) ==
    \E i \in 0..(Len(endpoint) - Len(pattern)) :
        \A j \in 1..Len(pattern) : endpoint[i + j] = pattern[j]

\* api.ts:29
criticalEndpoints == { <<"/auth", "/login">>, <<"/auth", "/refresh">>, <<"/health">> }

\* The HTTP statuses the transport answers with.
Statuses == {200, 302, 400, 401, 403, 404, 429, 500}

\* The tokens the application keeps under 'auth_token'.
Tokens == {"t1", "t2"}

\* localStorage.getItem of a key that is not stored
Absent == "null"

\* api.ts:81 Math.random().toString(36).substr(2, 9): two of its values
RandomSuffixes == {"x7k2p9q1a", "m3n8b5v2c"}

VARIABLES
    now,            \* Date.now()
    localStorage,   \* the items 'auth_token' and 'user_data' of localStorage
    pathname,       \* window.location.pathname, as pieces of its text
    redirectTimers, \* the times at which the pending redirects of api.ts:142 are due
    requestQueue,   \* rateLimitConfig.requestQueue
    retryCount,     \* the module-level retry counter
    req,            \* the calls: req[r] is the originalRequest of slot r and its progress
    admitLog,       \* history: the times of the admissions younger than windowMs,
                    \*          whether or not a 429 has dropped their record since
    sinceTrim       \* history: how many of them came after the last 429 was handled

vars == <<now, localStorage, pathname, redirectTimers,
          requestQueue, retryCount, req, admitLog, sinceTrim>>

\* The page the module runs in, apart from its storage.
page == <<pathname, redirectTimers>>

history == <<admitLog, sinceTrim>>

(***************************************************************************)
(* The sliding-window admission check (api.ts:17-43).                      *)
(***************************************************************************)
\* Mutant: the boundary age windowMs is kept.
cleanupOldRequests_Inclusive(queue, t) ==
    LET young(rec) == t - rec.timestamp <= windowMs
    IN  SelectSeq(queue, young)

\* api.ts:17-22: the records younger than windowMs at time t
cleanupOldRequests(queue, t) ==
    LET young(rec) == t - rec.timestamp < windowMs
    IN  SelectSeq(queue, young)

\* api.ts:30: criticalEndpoints.some(critical => endpoint.includes(critical))
isCritical(endpoint) ==
    \E critical \in criticalEndpoints : Includes(endpoint, critical)

\* Mutant: no allow-list.
shouldRateLimit_NoAllowList(queue, t, endpoint) ==
    Len(cleanupOldRequests(queue, t)) >= maxRequests

\* Mutant: a full window still admits; only more than maxRequests records limit.
shouldRateLimit_OffByOne(queue, t, endpoint) ==
    LET cleaned == cleanupOldRequests(queue, t)
    IN  IF isCritical(endpoint)
        THEN FALSE
        ELSE Len(cleaned) > maxRequests

\* api.ts:25-35: the verdict, given the queue as it is before the call
shouldRateLimit(queue, t, endpoint) ==
    LET cleaned == cleanupOldRequests(queue, t)
    IN  IF isCritical(endpoint)
        THEN FALSE
        ELSE Len(cleaned) >= maxRequests

\* Mutant: a call of the allow-list leaves no record.
addToRequestQueue_SkipsCritical(queue, t, endpoint) ==
    IF isCritical(endpoint) THEN queue ELSE Append(queue, [timestamp |-> t])

\* api.ts:38-43.  The record's endpoint field is written here and read nowhere
\* in the source, so the record is modelled by its timestamp.
addToRequestQueue(queue, t, endpoint) ==
    Append(queue, [timestamp |-> t])

(***************************************************************************)
(* The calls.  pc is the position of a call:                                *)
(*   idle      the slot holds no call                                      *)
(*   rejected  the request interceptor rejected it; the rejection is on    *)
(*             its way to the response interceptor's error handler         *)
(*   sent      dispatched to the transport, waiting for the answer         *)
(*   delay     awaiting the setTimeout of a retry                          *)
(*   done      resolved to the caller                                      *)
(*   failed    rejected to the caller                                      *)
(* retry is originalRequest._retry.  sends, retries and n429 count, for    *)
(* the current call, the dispatches to the transport, the retries after a  *)
(* network or 5xx failure and the retries after a 429; category is the     *)
(* class of the answer handled last for the call ("none" before the        *)
(* first, "Success", or the class Classify gives a failure); delay and     *)
(* deadline are those of the pending setTimeout.  error is what the error  *)
(* handler was handed for the current attempt (NoError while the attempt   *)
(* has not failed), toasts the messages that run of the handler raised,    *)
(* in order, and rejected the error it rejected to the caller (NoError:    *)
(* none).  authorization and requestId are                                 *)
(* the headers Authorization and X-Request-ID of the request's config,     *)
(* which a re-issue starts from; the model drops them with the call when   *)
(* the call resolves or fails.  lastAuthorization is history: the          *)
(* Authorization header the attempt before the current one was sent with;  *)
(* firstAuthorization is history too: the header of the call's first       *)
(* attempt.                                                                *)
(***************************************************************************)
\* The header is not set.
NoAuthorization == << >>

NoRequestId == [time |-> -1, random |-> ""]

\* api.ts:71
Bearer(token) == <<"Bearer ", token>>

\* api.ts:81
RequestId(t, random) == [time |-> t, random |-> random]

\* No failure was handled yet.
NoError ==
    [isRateLimit |-> FALSE, present |-> FALSE, status |-> -1,
     retryAfter |-> << >>, data |-> << >>, message |-> << >>]

\* toast was not called.
NoToast == << >>

\* toast was called once, with `message`.
Toast(message) == << message >>

NewCall(endpoint) ==
    [ pc |-> "idle", url |-> endpoint, retry |-> FALSE,
      sends |-> 0, retries |-> 0, n429 |-> 0,
      category |-> "none", delay |-> 0, deadline |-> 0,
      error |-> NoError, toasts |-> NoToast, rejected |-> NoError,
      authorization |-> NoAuthorization, requestId |-> NoRequestId,
      lastAuthorization |-> NoAuthorization,
      firstAuthorization |-> NoAuthorization ]

\* The module has just been loaded (api.ts:6, 13): nothing in flight.
Loaded ==
    /\ requestQueue = << >>
    /\ retryCount = 0
    /\ req = [r \in Reqs |-> NewCall(<<"/articles">>)]
    /\ redirectTimers = {}
    /\ admitLog = << >>
    /\ sinceTrim = 0

SignedOut == [auth_token |-> Absent, user_data |-> Absent]

SignedIn(token) == [auth_token |-> token, user_data |-> "user"]

\* The page is the sign-in page and nobody is signed in.
Init ==
    /\ now = 0
    /\ localStorage = SignedOut
    /\ pathname = <<"/auth">>
    /\ Loaded

Min(a, b) == IF a <= b THEN a ELSE b

\* The admission times of `log` less than windowMs before t.
YoungAt(log, t) ==
    LET isYoung(ts) == t - ts < windowMs
    IN  SelectSeq(log, isYoung)

\* Mutant: a header that is set is left as it is.
tagAuthorization_KeepsFirst(authorization, token) ==
    IF authorization # NoAuthorization THEN authorization
    ELSE IF token # Absent THEN Bearer(token) ELSE authorization

\* Mutant: without a stored token the header is removed.
tagAuthorization_Clears(authorization, token) ==
    IF token # Absent THEN Bearer(token) ELSE NoAuthorization

\* api.ts:69-72: the Authorization header after tagging
tagAuthorization(authorization, token) ==
    IF token # Absent THEN Bearer(token) ELSE authorization

\* Mutant: the request is recorded before the admission check, so a rejected
\* request leaves a record too.
RequestInterceptor_RecordsFirst(r, call, randoms) ==
    LET config   == [call EXCEPT !.delay = 0, !.deadline = 0,
                                 !.error = NoError, !.toasts = NoToast]
        endpoint == config.url
        cleaned  == cleanupOldRequests(requestQueue, now)
        young    == YoungAt(admitLog, now)
        token    == localStorage.auth_token
    IN  /\ Len(young) < MaxQueue
        /\ requestQueue' = addToRequestQueue(cleaned, now, endpoint)
        /\ admitLog' = Append(young, now)
        /\ sinceTrim' = Min(sinceTrim, Len(young)) + 1
        /\ IF shouldRateLimit(requestQueue, now, endpoint)
           THEN req' = [req EXCEPT ![r] = [config EXCEPT !.pc = "rejected"]]
           ELSE \E random \in randoms :
                    req' = [req EXCEPT ![r] =
                               [config EXCEPT
                                   !.pc = "sent", !.sends = @ + 1,
                                   !.lastAuthorization = config.authorization,
                                   !.firstAuthorization =
                                       IF config.sends = 0 THEN tagAuthorization(config.authorization, token)
                                       ELSE @,
                                   !.authorization = tagAuthorization(@, token),
                                   !.requestId = RequestId(now, random)]]
        /\ UNCHANGED <<now, localStorage, page, retryCount>>

\* api.ts:55-84: the request interceptor run on `config` for slot r.  A timer
\* that led here has fired and is gone, and the error handler has not yet
\* run for the attempt that starts here.
RequestInterceptor(r, call, randoms) ==
    LET config   == [call EXCEPT !.delay = 0, !.deadline = 0,
                                 !.error = NoError, !.toasts = NoToast]
        endpoint == config.url
        cleaned  == cleanupOldRequests(requestQueue, now)
        young    == YoungAt(admitLog, now)
        token    == localStorage.auth_token
    IN  /\ Len(young) < MaxQueue
        /\ IF shouldRateLimit(requestQueue, now, endpoint)
           THEN /\ requestQueue' = cleaned
                /\ req' = [req EXCEPT ![r] = [config EXCEPT !.pc = "rejected"]]
                /\ admitLog' = young
                /\ sinceTrim' = Min(sinceTrim, Len(young))
           ELSE /\ requestQueue' = addToRequestQueue(cleaned, now, endpoint)
                /\ \E random \in randoms :
                      req' = [req EXCEPT ![r] =
                                 [config EXCEPT
                                     !.pc = "sent", !.sends = @ + 1,
                                     !.lastAuthorization = config.authorization,
                                     !.firstAuthorization =
                                         IF config.sends = 0 THEN tagAuthorization(config.authorization, token)
                                         ELSE @,
                                     !.authorization = tagAuthorization(@, token),
                                     !.requestId = RequestId(now, random)]]
                /\ admitLog' = Append(young, now)
                /\ sinceTrim' = Min(sinceTrim, Len(young)) + 1
        /\ UNCHANGED <<now, localStorage, page, retryCount>>

\* api.ts:239-254: the application issues a call (api.get, api.post, ...).
NewRequest(r, endpoints, randoms) ==
    /\ req[r].pc \in {"idle", "done", "failed"}
    /\ \E endpoint \in endpoints : RequestInterceptor(r, NewCall(endpoint), randoms)

\* Mutant: a re-issue goes to the transport without the admission check.
Reissue_SkipsGate(r, randoms) ==
    /\ req[r].pc = "delay"
    /\ now >= req[r].deadline
    /\ req[r].sends < MaxSends
    /\ req' = [req EXCEPT ![r].pc = "sent", ![r].sends = @ + 1,
                          ![r].delay = 0, ![r].deadline = 0]
    /\ UNCHANGED <<now, localStorage, page, requestQueue, retryCount, history>>

\* api.ts:178-179, 196-198, 214-215: the setTimeout of a retry has fired and
\* apiClient(originalRequest) runs the request through the interceptors again.
Reissue(r, randoms) ==
    /\ req[r].pc = "delay"
    /\ now >= req[r].deadline
    /\ req[r].sends < MaxSends
    /\ RequestInterceptor(r, req[r], randoms)

\* The application outside api.ts signs the user in, or refreshes the session
\* ('/auth/login', '/auth/refresh'), and stores the credential that
\* api.ts:69 reads.
StoreCredential ==
    /\ \E token \in Tokens \ {localStorage.auth_token} :
           localStorage' = SignedIn(token)
    /\ UNCHANGED <<now, page, requestQueue, retryCount, req, history>>

\* Time passes.
Tick(instants) ==
    /\ \E t \in instants : t > now /\ now' = t
    /\ UNCHANGED <<localStorage, page, requestQueue, retryCount, req, history>>

(***************************************************************************)
(* What the response interceptor is handed.  isRateLimit marks the Error   *)
(* the request interceptor rejects with (api.ts:61-63); present says       *)
(* whether error.response exists; retryAfter is the text of the            *)
(* retry-after header as a sequence of characters; data is the text of     *)
(* response.data.error || response.data.message and message the text of    *)
(* error.message, as sequences of pieces.                                  *)
(***************************************************************************)
\* No retry-after header (undefined), or an empty one: both are falsy at api.ts:171.
NoHeader == << >>

\* "0" and "2" are delays in seconds; "Wed" begins the HTTP-date form of the header.
RetryAfterHeaders == {NoHeader, <<"0">>, <<"2">>, <<"W", "e", "d">>}

Digits == {"0", "1", "2", "3", "4", "5", "6", "7", "8", "9"}

DigitValue(c) ==
    CASE c = "0" -> 0 [] c = "1" -> 1 [] c = "2" -> 2 [] c = "3" -> 3 [] c = "4" -> 4
      [] c = "5" -> 5 [] c = "6" -> 6 [] c = "7" -> 7 [] c = "8" -> 8 [] c = "9" -> 9

RECURSIVE DecimalPrefix(_, _, _)
\* The number written by the digits text[i..] starts with, continuing `acc`.
DecimalPrefix(text, i, acc) ==
    IF i > Len(text) \/ text[i] \notin Digits THEN acc
    ELSE DecimalPrefix(text, i + 1, 10 * acc + DigitValue(text[i]))

\* parseInt(text): the number the leading digits write, NaN when there is none.
parseInt(text) ==
    IF text = << >> \/ text[1] \notin Digits
    THEN [nan |-> TRUE, value |-> 0]
    ELSE [nan |-> FALSE, value |-> DecimalPrefix(text, 1, 0)]

\* The response body carries neither error nor message.
NoData == << >>

\* api.ts:61-62
RateLimitError ==
    [isRateLimit |-> TRUE, present |-> FALSE, status |-> 0,
     retryAfter |-> NoHeader, data |-> NoData,
     message |-> <<"Rate limit exceeded. Please slow down your requests.">>]

\* The AxiosError of a request that got no response.
NetworkFailure ==
    [isRateLimit |-> FALSE, present |-> FALSE, status |-> 0,
     retryAfter |-> NoHeader, data |-> NoData,
     message |-> <<"Network Error">>]

\* The AxiosError of a response with a status outside 2xx.
HttpResponse(status, retryAfter) ==
    [isRateLimit |-> FALSE, present |-> TRUE, status |-> status,
     retryAfter |-> retryAfter, data |-> NoData,
     message |-> <<"Request failed with status code ", "{status}">>]

\* The same with a body that carries an error text.
HttpResponseWith(status, data) ==
    [HttpResponse(status, NoHeader) EXCEPT !.data = data]

\* axios' default validateStatus: a 2xx status resolves, anything else rejects
IsSuccessStatus(status) == status >= 200 /\ status < 300

TransportErrors ==
    {NetworkFailure}
        \cup { HttpResponse(s, NoHeader) : s \in {s \in Statuses : ~IsSuccessStatus(s)} }
        \cup { HttpResponse(429, h) : h \in RetryAfterHeaders }

RECURSIVE Pow2(_)
\* Math.pow(2, n) for n >= 0
Pow2(n) == IF n <= 0 THEN 1 ELSE 2 * Pow2(n - 1)

\* Mutant: the marker of the local rejection is not looked at.
isLocalRateLimit_Ignored(error) == FALSE

\* api.ts:111
isLocalRateLimit(error) == error.isRateLimit

\* Mutant: the 429 retry is bounded by the shared counter like the others.
rateLimitRetry_Bounded(error, originalRequest) ==
    error.present /\ error.status = 429 /\ retryCount < maxRetries

\* api.ts:169
rateLimitRetry(error, originalRequest) ==
    error.present /\ error.status = 429

\* Mutant: the counter is not tested.
networkRetry_Unbounded(error, originalRequest) ==
    ~error.present /\ ~originalRequest.retry

\* Mutant: the _retry flag is not tested.
networkRetry_NoFlag(error, originalRequest) ==
    ~error.present /\ retryCount < maxRetries

\* Mutant: each call has its own budget of retries.
networkRetry_OwnBudget(error, originalRequest) ==
    ~error.present /\ ~originalRequest.retry /\ originalRequest.retries < maxRetries

\* api.ts:183
networkRetry(error, originalRequest) ==
    ~error.present /\ ~originalRequest.retry /\ retryCount < maxRetries

\* Mutant: the _retry flag is not tested.
serverRetry_IgnoresFlag(error, originalRequest) ==
    error.present /\ error.status >= 500 /\ retryCount < maxRetries

\* api.ts:202
serverRetry(error, originalRequest) ==
    error.present /\ error.status >= 500 /\ ~originalRequest.retry /\ retryCount < maxRetries

\* Mutant: the exponent is off by one.
backoff_OffByOne(count) == baseDelay * Pow2(count)

\* api.ts:189 and 207: baseDelay * Math.pow(2, retryCount - 1), retryCount already incremented
backoff(count) == baseDelay * Pow2(count - 1)

\* Mutant: the header is taken to be in milliseconds.
rateLimitDelay_Millis(retryAfter) ==
    IF retryAfter # NoHeader
    THEN LET seconds == parseInt(retryAfter)
         IN  IF seconds.nan THEN 0 ELSE seconds.value
    ELSE defaultRetryAfterMs

\* api.ts:170-171 and 178: the delay of the timer a 429 sets.  parseInt gives
\* NaN for a header that does not start with a digit, NaN * 1000 is NaN, and
\* setTimeout takes a NaN delay as 0.
rateLimitDelay(retryAfter) ==
    IF retryAfter # NoHeader
    THEN LET seconds == parseInt(retryAfter)
         IN  IF seconds.nan THEN 0 ELSE seconds.value * 1000
    ELSE defaultRetryAfterMs

\* Mutant: the oldest records are kept, slice(0, 50).
trimQueue_KeepsFirst(queue) ==
    IF Len(queue) <= keepLast THEN queue
    ELSE SubSeq(queue, 1, keepLast)

\* api.ts:176: requestQueue.slice(-50)
trimQueue(queue) ==
    IF Len(queue) <= keepLast THEN queue
    ELSE SubSeq(queue, Len(queue) - keepLast + 1, Len(queue))

\* Mutant: the success handler leaves the counter alone.
countAfterSuccess_Kept == retryCount

\* api.ts:104: the value the success handler leaves in retryCount
countAfterSuccess == 0

\* The class of a failure, by the first test of the error handler it meets
\* (api.ts:111, 135, 151, 157, 169, 183/222, 202/225, 227).
Classify(error) ==
    IF isLocalRateLimit(error) THEN "RateLimitLocal"
    ELSE IF error.present /\ error.status = 401 THEN "Unauthorized"
    ELSE IF error.present /\ error.status = 403 THEN "Forbidden"
    ELSE IF error.present /\ error.status = 404 THEN "NotFound"
    ELSE IF error.present /\ error.status = 429 THEN "RateLimitServer"
    ELSE IF ~error.present THEN "NetworkError"
    ELSE IF error.status >= 500 THEN "ServerError"
    ELSE IF error.status >= 400 /\ error.status < 500 THEN "ClientError"
    ELSE "Other"

(***************************************************************************)
(* The messages handed to toast, as sequences of pieces of their text; a   *)
(* piece in braces stands for the number the template interpolates.        *)
(***************************************************************************)
TooManyRequests    == <<"Too many requests. Please slow down and try again in a moment.">>
SessionExpired     == <<"Session expired", ". Please log in again.">>
AccessDenied       == <<"Access denied", ". You do not have permission to perform this action.">>
ResourceNotFound   == <<"Resource not found.">>
RateLimitRetrying  == <<"Rate limit exceeded. Retrying in ", "{delay / 1000}", " seconds...">>
ConnectionRetrying == <<"Connection failed. Retrying... (", "{retryCount}/{maxRetries}", ")">>
ServerRetrying     == <<"Server error. Retrying... (", "{retryCount}/{maxRetries}", ")">>
NetworkErrorToast  == <<"Network error. Please check your internet connection.">>
ServerErrorToast   == <<"Server error. Please try again later.">>
RequestFailed      == <<"Request failed">>

\* api.ts:159
isAdminEndpoint(endpoint) == Includes(endpoint, <<"/admin", "/">>)

\* Mutant: every 404 is announced.
notFoundToast_Always(endpoint) == Toast(ResourceNotFound)

\* api.ts:158-164: what a 404 raises
notFoundToast(endpoint) ==
    IF isAdminEndpoint(endpoint) THEN NoToast ELSE Toast(ResourceNotFound)

\* Mutant: the test for a client error comes first and has no upper end.
finalToast_ClientBeforeServer(error) ==
    IF ~error.present THEN Toast(NetworkErrorToast)
    ELSE IF error.status >= 400
    THEN LET errorMessage == IF error.data # NoData THEN error.data ELSE RequestFailed
         IN  IF /\ ~Includes(errorMessage, <<"Session expired">>)
                /\ ~Includes(errorMessage, <<"Access denied">>)
             THEN Toast(errorMessage)
             ELSE NoToast
    ELSE NoToast

\* Mutant: the server's message is shown whatever it says.
finalToast_NoSuppression(error) ==
    IF ~error.present THEN Toast(NetworkErrorToast)
    ELSE IF error.status >= 500 THEN Toast(ServerErrorToast)
    ELSE IF error.status >= 400 /\ error.status < 500
    THEN Toast(IF error.data # NoData THEN error.data ELSE RequestFailed)
    ELSE NoToast

\* api.ts:222-232: what the handler raises when it gives up at its end
finalToast(error) ==
    IF ~error.present THEN Toast(NetworkErrorToast)
    ELSE IF error.status >= 500 THEN Toast(ServerErrorToast)
    ELSE IF error.status >= 400 /\ error.status < 500
    THEN LET errorMessage == IF error.data # NoData THEN error.data ELSE RequestFailed
         IN  IF /\ ~Includes(errorMessage, <<"Session expired">>)
                /\ ~Includes(errorMessage, <<"Access denied">>)
             THEN Toast(errorMessage)
             ELSE NoToast
    ELSE NoToast

\* api.ts:222-223: the error the handler rejects with when it gives up at its end
finalError(error) ==
    IF ~error.present THEN [error EXCEPT !.message = NetworkErrorToast] ELSE error

\* Mutant: only the token is removed.
removeItem_TokenOnly(storage, key) ==
    IF key = "auth_token" THEN [storage EXCEPT ![key] = Absent] ELSE storage

\* api.ts:136-137: localStorage.removeItem(key)
removeItem(storage, key) == [storage EXCEPT ![key] = Absent]

\* Mutant: the redirect is scheduled wherever the page is.
scheduleRedirect_Always(timers, path, t) ==
    timers \cup {t + redirectDelay}

\* api.ts:141-145: the pending redirects after a 401 handled at time t on `path`
scheduleRedirect(timers, path, t) ==
    IF ~Includes(path, <<"/auth">>)
    THEN timers \cup {t + redirectDelay}
    ELSE timers

\* return Promise.reject(error): the call fails to its caller
GiveUp(r, error, rejected, category, toasts) ==
    req' = [req EXCEPT ![r].pc = "failed", ![r].category = category,
                       ![r].error = error, ![r].toasts = toasts,
                       ![r].rejected = rejected,
                       ![r].authorization = NoAuthorization,
                       ![r].requestId = NoRequestId,
                       ![r].lastAuthorization = NoAuthorization,
                       ![r].firstAuthorization = NoAuthorization,
                       ![r].delay = 0, ![r].deadline = 0]

\* Mutant: the wait after a 429 clears the _retry flag.
AwaitRetry_ClearsFlag(r, error, category, toasts, delay, markRetry) ==
    req' = [req EXCEPT ![r].pc = "delay", ![r].category = category,
                       ![r].error = error, ![r].toasts = toasts,
                       ![r].delay = delay, ![r].deadline = now + delay,
                       ![r].retry = markRetry,
                       ![r].retries = IF markRetry THEN @ + 1 ELSE @,
                       ![r].n429 = IF markRetry THEN @ ELSE @ + 1]

\* Mutant: every wait, the one after a 429 too, sets the _retry flag.
AwaitRetry_SetsFlag(r, error, category, toasts, delay, markRetry) ==
    req' = [req EXCEPT ![r].pc = "delay", ![r].category = category,
                       ![r].error = error, ![r].toasts = toasts,
                       ![r].delay = delay, ![r].deadline = now + delay,
                       ![r].retry = TRUE,
                       ![r].retries = IF markRetry THEN @ + 1 ELSE @,
                       ![r].n429 = IF markRetry THEN @ ELSE @ + 1]

\* await new Promise(resolve => setTimeout(resolve, delay)); return apiClient(originalRequest)
AwaitRetry(r, error, category, toasts, delay, markRetry) ==
    req' = [req EXCEPT ![r].pc = "delay", ![r].category = category,
                       ![r].error = error, ![r].toasts = toasts,
                       ![r].delay = delay, ![r].deadline = now + delay,
                       ![r].retry = IF markRetry THEN TRUE ELSE @,
                       ![r].retries = IF markRetry THEN @ + 1 ELSE @,
                       ![r].n429 = IF markRetry THEN @ ELSE @ + 1]

\* api.ts:95-106: the response interceptor's success handler
onFulfilled(r) ==
    /\ retryCount' = countAfterSuccess
    /\ req' = [req EXCEPT ![r].pc = "done", ![r].category = "Success",
                          ![r].error = NoError, ![r].toasts = NoToast,
                          ![r].authorization = NoAuthorization,
                          ![r].requestId = NoRequestId,
                          ![r].lastAuthorization = NoAuthorization,
                          ![r].firstAuthorization = NoAuthorization,
                          ![r].delay = 0, ![r].deadline = 0]
    /\ UNCHANGED <<now, localStorage, page, requestQueue, history>>

\* api.ts:107-235: the response interceptor's error handler, up to its
\* return or its await
onRejected(r, error) ==
    LET originalRequest == req[r]
        status == error.status
    IN  IF isLocalRateLimit(error)
        THEN \* api.ts:111-114
             /\ GiveUp(r, error, error, "RateLimitLocal", Toast(TooManyRequests))
             /\ UNCHANGED <<now, localStorage, page, requestQueue, retryCount, history>>
        ELSE IF error.present /\ status = 401
        THEN \* api.ts:135-148
             /\ localStorage' = removeItem(removeItem(localStorage, "auth_token"), "user_data")
             /\ redirectTimers' = scheduleRedirect(redirectTimers, pathname, now)
             /\ GiveUp(r, error, error, "Unauthorized", Toast(SessionExpired))
             /\ UNCHANGED <<now, pathname, requestQueue, retryCount, history>>
        ELSE IF error.present /\ status = 403
        THEN \* api.ts:151-154
             /\ GiveUp(r, error, error, "Forbidden", Toast(AccessDenied))
             /\ UNCHANGED <<now, localStorage, page, requestQueue, retryCount, history>>
        ELSE IF error.present /\ status = 404
        THEN \* api.ts:157-166
             /\ GiveUp(r, error, error, "NotFound", notFoundToast(originalRequest.url))
             /\ UNCHANGED <<now, localStorage, page, requestQueue, retryCount, history>>
        ELSE IF rateLimitRetry(error, originalRequest)
        THEN \* api.ts:169-180
             /\ requestQueue' = trimQueue(requestQueue)
             /\ AwaitRetry(r, error, "RateLimitServer", Toast(RateLimitRetrying),
                           rateLimitDelay(error.retryAfter), FALSE)
             /\ sinceTrim' = 0
             /\ UNCHANGED <<now, localStorage, page, retryCount, admitLog>>
        ELSE IF networkRetry(error, originalRequest)
        THEN \* api.ts:183-199
             /\ retryCount' = retryCount + 1
             /\ \E jitter \in Jitters :
                    AwaitRetry(r, error, "NetworkError", Toast(ConnectionRetrying),
                               backoff(retryCount') + jitter, TRUE)
             /\ UNCHANGED <<now, localStorage, page, requestQueue, history>>
        ELSE IF serverRetry(error, originalRequest)
        THEN \* api.ts:202-216
             /\ retryCount' = retryCount + 1
             /\ AwaitRetry(r, error, "ServerError", Toast(ServerRetrying),
                           backoff(retryCount'), TRUE)
             /\ UNCHANGED <<now, localStorage, page, requestQueue, history>>
        ELSE \* api.ts:218-234
             /\ retryCount' = 0
             /\ GiveUp(r, error, finalError(error), Classify(error), finalToast(error))
             /\ UNCHANGED <<now, localStorage, page, requestQueue, history>>

\* The transport answers a dispatched request with a 2xx status.
TransportSuccess(r) ==
    /\ req[r].pc = "sent"
    /\ \E status \in {s \in Statuses : IsSuccessStatus(s)} : onFulfilled(r)

\* The transport fails a dispatched request: no response, or a non-2xx status.
TransportFailure(r, errors) ==
    /\ req[r].pc = "sent"
    /\ \E error \in errors : onRejected(r, error)

\* The rejection of the request interceptor reaches the error handler.
LocalRejection(r) ==
    /\ req[r].pc = "rejected"
    /\ onRejected(r, RateLimitError)

\* The pages of the application; '/authors' is not the sign-in page, but its
\* path contains the text '/auth'.
Pathnames == { <<"/">>, <<"/auth">>, <<"/auth", "ors">> }

\* The user moves to another page of the application; its router changes
\* the path window.location.pathname (api.ts:141) without loading a new document.
Navigate ==
    /\ \E path \in Pathnames \ {pathname} : pathname' = path
    /\ UNCHANGED <<now, localStorage, redirectTimers, requestQueue, retryCount, req, history>>

\* api.ts:142-144: a redirect timer fires and window.location.href = '/auth'
\* loads the sign-in page: the document is replaced, and with it the module's
\* state, the calls in flight and the pending timers; localStorage stays.
Redirect ==
    /\ \E due \in redirectTimers : now >= due
    /\ pathname' = <<"/auth">>
    /\ requestQueue' = << >>
    /\ retryCount' = 0
    /\ req' = [r \in Reqs |-> NewCall(<<"/articles">>)]
    /\ redirectTimers' = {}
    /\ admitLog' = << >>
    /\ sinceTrim' = 0
    /\ UNCHANGED <<now, localStorage>>

\* The steps of the calls, with the endpoints the application calls, the
\* outcomes of Math.random() and the failures of the transport.
Calls(endpoints, randoms, errors) ==
    \/ \E r \in Reqs : NewRequest(r, endpoints, randoms)
    \/ \E r \in Reqs : Reissue(r, randoms)
    \/ \E r \in Reqs : TransportSuccess(r)
    \/ \E r \in Reqs : TransportFailure(r, errors)
    \/ \E r \in Reqs : LocalRejection(r)

(***************************************************************************)
(* Spec: admission, classification and retries.  The page is the sign-in   *)
(* page with nobody signed in, so that tagging adds no Authorization       *)
(* header and a 401 schedules no redirect; Math.random() has one outcome.  *)
(***************************************************************************)
OneRandom == {"x7k2p9q1a"}

Next ==
    \/ Calls(Endpoints, OneRandom, TransportErrors)
    \/ Tick(Instants)

Spec == Init /\ [][Next]_vars

(***************************************************************************)
(* SpecTagging: the credential store and the headers.  The application     *)
(* signs in and refreshes its token while calls are in flight, and         *)
(* Math.random() has two outcomes; the calls go to one endpoint, and the   *)
(* transport fails them with a network error, a 401 or a 429 that asks     *)
(* for an immediate retry, within the first second.  The page is the       *)
(* sign-in page.                                                           *)
(***************************************************************************)
TaggingEndpoints == { <<"/articles">> }

TaggingErrors ==
    { NetworkFailure, HttpResponse(401, NoHeader), HttpResponse(429, <<"0">>) }

ShortInstants == {0, 1000}

InitTagging ==
    /\ now = 0
    /\ localStorage \in {SignedOut} \cup {SignedIn(token) : token \in Tokens}
    /\ pathname = <<"/auth">>
    /\ Loaded

NextTagging ==
    \/ Calls(TaggingEndpoints, RandomSuffixes, TaggingErrors)
    \/ StoreCredential
    \/ Tick(ShortInstants)

SpecTagging == InitTagging /\ [][NextTagging]_vars

(***************************************************************************)
(* SpecNotify: the notifications.  As Spec, within the first second, with  *)
(* an administrative endpoint among the endpoints and with client errors   *)
(* whose body carries a message.                                           *)
(***************************************************************************)
NotifyEndpoints == { <<"/admin", "/", "users">>, <<"/articles">> }

\* response.data.error of the client errors
ErrorTexts ==
    { <<"Invalid input">>,
      <<"Session expired", ": token too old">>,
      <<"Error: ", "Access denied">> }

NotifyErrors ==
    TransportErrors \cup { HttpResponseWith(400, data) : data \in ErrorTexts }

NextNotify ==
    \/ Calls(NotifyEndpoints, OneRandom, NotifyErrors)
    \/ Tick(ShortInstants)

SpecNotify == Init /\ [][NextNotify]_vars

(***************************************************************************)
(* SpecRedirect: the redirect after a 401.  The user is signed in and      *)
(* moves between the pages of the application while calls to one endpoint  *)
(* are in flight; the transport fails them with a network error or a 401.  *)
(***************************************************************************)
RedirectErrors == { NetworkFailure, HttpResponse(401, NoHeader) }

InitRedirect ==
    /\ now = 0
    /\ localStorage = SignedIn("t1")
    /\ pathname \in Pathnames
    /\ Loaded

NextRedirect ==
    \/ Calls(TaggingEndpoints, OneRandom, RedirectErrors)
    \/ Navigate
    \/ Redirect
    \/ Tick(Instants)

SpecRedirect == InitRedirect /\ [][NextRedirect]_vars

(***************************************************************************)
(* SpecAdmission: the admission check next to the credential store.  The   *)
(* user is signed in or not when the module loads; the calls go to a       *)
(* critical and a non-critical endpoint, so that the queue can hold more   *)
(* than maxRequests records, over a whole window; the transport fails      *)
(* them with a network error or a 401.                                     *)
(***************************************************************************)
NextAdmission ==
    \/ Calls(Endpoints, OneRandom, RedirectErrors)
    \/ Tick(Instants)

SpecAdmission == InitTagging /\ [][NextAdmission]_vars

(***************************************************************************)
(* SpecCredential: the credential store over more than one window.  The    *)
(* user is signed in when the module loads and the application refreshes   *)
(* the token while calls to one endpoint are in flight; the transport      *)
(* fails them as in SpecTagging, and a whole window can pass, so that a    *)
(* call can be re-issued more than once.                                   *)
(***************************************************************************)
InitCredential ==
    /\ now = 0
    /\ localStorage = SignedIn("t1")
    /\ pathname = <<"/auth">>
    /\ Loaded

\* The time the module loads and the time one window later.
WindowInstants == {0, 60000}

NextCredential ==
    \/ Calls(TaggingEndpoints, OneRandom, TaggingErrors)
    \/ StoreCredential
    \/ Tick(WindowInstants)

SpecCredential == InitCredential /\ [][NextCredential]_vars

(***************************************************************************)
(* Vocabulary of the properties.                                           *)
(***************************************************************************)
\* Endpoints whose text contains '/auth/login', '/auth/refresh' or '/health'.
CriticalSamples ==
    { <<"/auth", "/login">>, <<"/api", "/auth", "/login">>, <<"/auth", "/refresh">>,
      <<"/api", "/auth", "/refresh", "?x">>, <<"/health">>, <<"/api", "/health", "check">> }

\* The step runs the request interceptor for r: a new call or a re-issue.
InterceptorRuns(r) ==
    /\ req[r].pc \in {"idle", "done", "failed", "delay"}
    /\ req'[r].pc \in {"sent", "rejected"}

\* The step hands r's failure (of the transport, or the local rejection) to the
\* error handler.
FailureHandled(r) ==
    /\ req[r].pc \in {"sent", "rejected"}
    /\ req'[r].pc \in {"failed", "delay"}

\* Admissions less than windowMs old, and those of them made after the last 429.
YoungAdmissions ==
    Cardinality({i \in DOMAIN admitLog : now - admitLog[i] < windowMs})

YoungAdmissionsSinceTrim ==
    Cardinality({i \in DOMAIN admitLog :
                    /\ i > Len(admitLog) - sinceTrim
                    /\ now - admitLog[i] < windowMs})

RetriedCategories == {"NetworkError", "ServerError"}

(***************************************************************************)
(* C1.  An endpoint of the critical allow-list is never rejected by the     *)
(* admission check, however many live records the window holds: the check  *)
(* answers "do not limit" for every such endpoint in every reachable state *)
(* of the queue, and no call to such an endpoint is ever in the rejected   *)
(* position.                                                               *)
(***************************************************************************)
C1_CriticalNeverRejected ==
    /\ \A endpoint \in CriticalSamples : ~shouldRateLimit(requestQueue, now, endpoint)
    /\ \A r \in Reqs : req[r].url \in CriticalSamples => req[r].pc # "rejected"

\* A critical call was admitted and dispatched on top of a full window.
C1_Witness ==
    \E r \in Reqs :
        /\ req[r].url \in CriticalSamples
        /\ req[r].pc = "sent"
        /\ Len(requestQueue) > maxRequests
        /\ \A i \in DOMAIN requestQueue : now - requestQueue[i].timestamp < windowMs
        /\ requestQueue[Len(requestQueue)].timestamp = now

(***************************************************************************)
(* C2 as stated.  Whenever maxRequests admissions were made less than       *)
(* windowMs ago, the next non-critical request is rejected, whatever       *)
(* happened in between (429 answers included).                             *)
(***************************************************************************)
C2_RejectedAfterCapacityAdmissions ==
    [][\A r \in Reqs :
          (/\ InterceptorRuns(r)
           /\ req'[r].url \notin CriticalSamples
           /\ YoungAdmissions >= maxRequests)
          => req'[r].pc = "rejected"]_vars

(***************************************************************************)
(* C2 as amended.  Whenever maxRequests admissions were made less than      *)
(* windowMs ago and no 429 answer was handled since the first of them, the *)
(* next non-critical request is rejected; and whenever fewer than          *)
(* maxRequests admissions are less than windowMs old (age = windowMs       *)
(* counts as elapsed), a non-critical request is admitted.                 *)
(***************************************************************************)
C2_WindowAdmission ==
    [][\A r \in Reqs :
          (InterceptorRuns(r) /\ req'[r].url \notin CriticalSamples)
          => /\ YoungAdmissionsSinceTrim >= maxRequests => req'[r].pc = "rejected"
             /\ YoungAdmissions < maxRequests => req'[r].pc = "sent"]_vars

\* One call was rejected by the full window, and once every earlier admission
\* is at least windowMs old another non-critical call is admitted.
C2_Witness ==
    \E r, o \in Reqs :
        /\ req[r].pc = "failed" /\ req[r].category = "RateLimitLocal"
        /\ req[o].pc = "sent" /\ req[o].url \notin CriticalSamples
        /\ now >= windowMs
        /\ requestQueue = << [timestamp |-> now] >>
        /\ admitLog = << now >>

(***************************************************************************)
(* C3.  A request the admission check rejects is not dispatched (its count *)
(* of transport attempts does not move), and the error handler gives up on *)
(* it: the call fails as RateLimitLocal, no retry is scheduled, and the    *)
(* _retry flag and retryCount are left as they were.                       *)
(***************************************************************************)
C3_LocalRejectionTerminal ==
    [][\A r \in Reqs :
          /\ (req[r].pc # "rejected" /\ req'[r].pc = "rejected")
                => req'[r].sends = (IF req[r].pc = "delay" THEN req[r].sends ELSE 0)
          /\ (req[r].pc = "rejected" /\ req'[r] # req[r])
                => /\ req'[r].pc = "failed"
                   /\ req'[r].category = "RateLimitLocal"
                   /\ req'[r].sends = req[r].sends
                   /\ req'[r].retries = req[r].retries
                   /\ req'[r].retry = req[r].retry
                   /\ retryCount' = retryCount]_vars

\* A first-time call failed on the local rejection while the retry budget and
\* its own flag would have allowed a retry.
C3_Witness ==
    \E r \in Reqs :
        /\ req[r].pc = "failed" /\ req[r].category = "RateLimitLocal"
        /\ req[r].sends = 0
        /\ ~req[r].retry
        /\ retryCount > 0 /\ retryCount < maxRetries

(***************************************************************************)
(* C4.  The shared counter stays within 0..maxRetries in every reachable   *)
(* state, under every interleaving of the calls in flight.                 *)
(***************************************************************************)
C4_RetryCountInRange ==
    retryCount >= 0 /\ retryCount <= maxRetries

\* The counter is at maxRetries, brought there by a retry that is now waiting,
\* while another call with its flag unset is still in flight.
C4_Witness ==
    \E r, o \in Reqs :
        /\ retryCount = maxRetries
        /\ req[r].pc = "delay" /\ req[r].category \in RetriedCategories
        /\ req[o].pc = "sent" /\ ~req[o].retry

(***************************************************************************)
(* C5 as stated.  Right after the error handler gives up on a call, for     *)
(* whatever class of failure, retryCount is 0.                             *)
(***************************************************************************)
C5_ResetOnEveryTerminalFailure ==
    [][\A r \in Reqs :
          (req[r].pc \in {"sent", "rejected"} /\ req'[r].pc = "failed")
          => retryCount' = 0]_vars

(***************************************************************************)
(* C6.  Right after a 2xx answer is handled retryCount is 0, whatever it   *)
(* was and whichever call (first attempt or re-issue) the answer is for.   *)
(***************************************************************************)
C6_ResetOnSuccess ==
    [][\A r \in Reqs :
          (req[r].pc = "sent" /\ req'[r].pc = "done") => retryCount' = 0]_vars

\* A retried call has succeeded and the counter is 0 although another call is
\* still waiting for the retry that had raised it.
C6_Witness ==
    \E r, o \in Reqs :
        /\ req[r].pc = "done" /\ req[r].retries = 1
        /\ req[o].pc = "delay" /\ req[o].category \in RetriedCategories
        /\ retryCount = 0

(***************************************************************************)
(* C7 as stated.  A single call (no other call was ever issued) whose       *)
(* attempts all fail with NetworkError is retried as long as it has made   *)
(* fewer than maxRetries retries: it fails to its caller only after        *)
(* maxRetries retries, maxRetries + 1 transport attempts.                  *)
(***************************************************************************)
C7_RetriesUpToMaxRetries ==
    [][\A r \in Reqs :
          (/\ \A o \in Reqs \ {r} : req[o].pc = "idle"
           /\ req[r].pc = "sent"
           /\ req[r].n429 = 0
           /\ req[r].sends = 1 \/ req[r].category = "NetworkError"
           /\ req[r].retries < maxRetries
           /\ req'[r].pc \in {"failed", "delay"}
           /\ req'[r].category = "NetworkError")
          => req'[r].pc = "delay"]_vars

(***************************************************************************)
(* C8.  No call is retried after NetworkError or ServerError more than     *)
(* maxRetries times, under any interleaving and any sequence of answers.   *)
(***************************************************************************)
C8_RetriesBounded ==
    \A r \in Reqs : req[r].retries <= maxRetries

\* A call was retried after a network or 5xx failure, failed again and was
\* given up.
C8_Witness ==
    \E r \in Reqs :
        /\ req[r].pc = "failed" /\ req[r].category \in RetriedCategories
        /\ req[r].retries >= 1 /\ req[r].retry

(***************************************************************************)
(* C9 as stated.  The delay of a retry after NetworkError or ServerError   *)
(* is baseDelay * 2^(k-1), k counting the retries of that call itself,     *)
(* plus a jitter in [0,1000) for NetworkError only.                        *)
(***************************************************************************)
C9_DelayByOwnAttempt ==
    \A r \in Reqs :
        (req[r].pc = "delay" /\ req[r].category \in RetriedCategories)
        => LET base == baseDelay * 2^(req[r].retries - 1)
           IN  IF req[r].category = "NetworkError"
               THEN req[r].delay >= base /\ req[r].delay < base + 1000
               ELSE req[r].delay = base

(***************************************************************************)
(* C9 as amended.  The delay of a retry after NetworkError or ServerError  *)
(* is baseDelay * 2^(retryCount-1), retryCount being the shared counter    *)
(* right after this retry has incremented it, plus a jitter in [0,1000)    *)
(* for NetworkError only; the timer is set to that delay from now.         *)
(***************************************************************************)
C9_DelayBySharedCounter ==
    [][\A r \in Reqs :
          (/\ req[r].pc = "sent" /\ req'[r].pc = "delay"
           /\ req'[r].category \in RetriedCategories)
          => LET base == baseDelay * 2^(retryCount' - 1)
             IN  /\ retryCount' = retryCount + 1
                 /\ req'[r].deadline = now + req'[r].delay
                 /\ IF req'[r].category = "NetworkError"
                    THEN req'[r].delay >= base /\ req'[r].delay < base + 1000
                    ELSE req'[r].delay = base]_vars

\* The first retry of a call waits 2 * baseDelay (plus jitter), because another
\* call's retry had already raised the shared counter.
C9_Witness ==
    \E r, o \in Reqs :
        /\ req[r].pc = "delay" /\ req[r].category = "NetworkError"
        /\ req[r].retries = 1
        /\ retryCount = 2
        /\ req[r].delay > 2 * baseDelay /\ req[r].delay < 2 * baseDelay + 1000
        /\ req[o].pc = "delay" /\ req[o].category = "ServerError"
        /\ req[o].delay = baseDelay

(***************************************************************************)
(* C10 as stated.  After every 429 the call is dispatched to the transport  *)
(* again: the wait a 429 started never ends otherwise.                     *)
(***************************************************************************)
C10_ReissuedToTransport ==
    [][\A r \in Reqs :
          (/\ req[r].pc = "delay" /\ req[r].category = "RateLimitServer"
           /\ req'[r].pc # "delay")
          => req'[r].pc = "sent"]_vars

(***************************************************************************)
(* C10 as amended.  A 429 is never given up on and never bounded by        *)
(* maxRetries: whatever retryCount and the _retry flag are, the handler    *)
(* leaves both alone and schedules the re-issue; when the wait ends the    *)
(* call goes through the request interceptor again, which dispatches it to *)
(* the transport unless the admission check rejects it (a non-critical     *)
(* endpoint with the window full).                                         *)
(***************************************************************************)
C10_RateLimitRetryUnbounded ==
    [][\A r \in Reqs :
          /\ (FailureHandled(r) /\ req'[r].category = "RateLimitServer")
                => /\ req'[r].pc = "delay"
                   /\ req'[r].n429 = req[r].n429 + 1
                   /\ req'[r].retry = req[r].retry
                   /\ retryCount' = retryCount
          /\ (/\ req[r].pc = "delay" /\ req[r].category = "RateLimitServer"
              /\ req'[r].pc # "delay")
                => \/ req'[r].pc = "sent" /\ req'[r].sends = req[r].sends + 1
                   \/ /\ req'[r].pc = "rejected"
                      /\ req[r].url \notin CriticalSamples
                      /\ YoungAdmissions >= maxRequests]_vars

\* A call is back at the transport after more 429 answers than maxRetries,
\* with the shared counter positive.
C10_Witness ==
    \E r \in Reqs :
        /\ req[r].pc = "sent"
        /\ req[r].n429 > maxRetries
        /\ req[r].sends = req[r].n429 + 1
        /\ retryCount > 0

\* The step re-issues r: its timer has fired and the request interceptor runs
\* on the original request again.
Reissued(r) ==
    req[r].pc = "delay" /\ InterceptorRuns(r)

\* Records of the queue less than windowMs old.
LiveRecords ==
    Cardinality({i \in DOMAIN requestQueue : now - requestQueue[i].timestamp < windowMs})

\* The seconds a retry-after header of the decimal form states.
C11_Seconds(header) ==
    CASE header = <<"0">> -> 0
      [] header = <<"2">> -> 2

(***************************************************************************)
(* C11.  When a 429 is handled, a timer is set and the call waits: the     *)
(* delay is 5000 ms without a retry-after header and 1000 times the header *)
(* when the header states seconds, the timer is due that delay from now,   *)
(* and the call is re-issued only once the time has reached that instant.  *)
(***************************************************************************)
C11_RateLimitDelay ==
    [][\A r \in Reqs :
          /\ (/\ FailureHandled(r)
              /\ req'[r].error.present /\ req'[r].error.status = 429)
                => LET header == req'[r].error.retryAfter
                   IN  /\ req'[r].pc = "delay"
                       /\ req'[r].deadline = now + req'[r].delay
                       /\ header = << >> => req'[r].delay = 5000
                       /\ header \in {<<"0">>, <<"2">>}
                             => req'[r].delay = 1000 * C11_Seconds(header)
          /\ (Reissued(r) /\ req[r].error.status = 429)
                => now' >= req[r].deadline]_vars

\* A 429 with retry-after: 2 set a delay of 2000 ms, and the time has come
\* for the re-issue.
C11_Witness ==
    \E r \in Reqs :
        /\ req[r].pc = "delay"
        /\ req[r].error.status = 429 /\ req[r].error.retryAfter = <<"2">>
        /\ req[r].delay = 2000
        /\ now >= req[r].deadline

(***************************************************************************)
(* C12 as stated.  A re-issued request is never rejected by the admission  *)
(* check.                                                                  *)
(***************************************************************************)
C12_ReissueNeverRejected ==
    [][\A r \in Reqs : Reissued(r) => req'[r].pc # "rejected"]_vars

(***************************************************************************)
(* C12 as amended.  A re-issued request goes through the admission check   *)
(* like a new one: it is rejected exactly when its endpoint is not         *)
(* critical and the queue holds maxRequests or more records less than      *)
(* windowMs old at the time of the re-issue; otherwise it is dispatched,   *)
(* and recorded in the queue a second time.                                *)
(***************************************************************************)
C12_ReissueChecksAdmission ==
    [][\A r \in Reqs :
          Reissued(r)
          => /\ req'[r].pc = "rejected"
                  <=> (req[r].url \notin CriticalSamples /\ LiveRecords >= maxRequests)
             /\ req'[r].pc = "rejected"
                  => /\ req'[r].sends = req[r].sends
                     /\ Len(requestQueue') = LiveRecords
             /\ req'[r].pc = "sent"
                  => /\ req'[r].sends = req[r].sends + 1
                     /\ Len(requestQueue') = LiveRecords + 1
                     /\ requestQueue'[Len(requestQueue')].timestamp = now]_vars

\* A call that had been dispatched and was waiting for its retry was rejected
\* by the admission check at the re-issue, and failed as RateLimitLocal.
C12_Witness ==
    \E r \in Reqs :
        /\ req[r].pc = "failed" /\ req[r].category = "RateLimitLocal"
        /\ req[r].sends >= 1
        /\ req[r].retry

(***************************************************************************)
(* C13 as stated.  A re-issued request that is dispatched carries an       *)
(* X-Request-ID different from the one of the previous attempt and the     *)
(* Authorization header of the previous attempt.                           *)
(***************************************************************************)
C13_NewIdSameCredential ==
    [][\A r \in Reqs :
          (Reissued(r) /\ req'[r].pc = "sent")
          => /\ req'[r].requestId # req[r].requestId
             /\ req'[r].authorization = req[r].authorization]_vars

(***************************************************************************)
(* C13 as amended.  A re-issued request that the admission check admits is *)
(* tagged again: its X-Request-ID is generated anew from the time of the   *)
(* re-issue and a fresh random suffix, so it differs from the previous one *)
(* unless both the millisecond and the suffix coincide; its Authorization  *)
(* header is the bearer credential of the token stored at the time of the  *)
(* re-issue, and the header of the previous attempt only when no token is  *)
(* stored then.  A re-issue the admission check rejects is not tagged.     *)
(***************************************************************************)
C13_RetaggedFromStore ==
    [][\A r \in Reqs :
          Reissued(r)
          => IF req'[r].pc = "sent"
             THEN /\ req'[r].requestId.time = now
                  /\ req'[r].requestId.random \in RandomSuffixes
                  /\ req[r].requestId.time < now => req'[r].requestId # req[r].requestId
                  /\ req'[r].authorization =
                         IF localStorage.auth_token \in Tokens
                         THEN <<"Bearer ", localStorage.auth_token>>
                         ELSE req[r].authorization
             ELSE /\ req'[r].requestId = req[r].requestId
                  /\ req'[r].authorization = req[r].authorization]_vars

\* A re-issued call is at the transport with the credential of the refreshed
\* token, its previous attempt having carried the one of the old token.
C13_Witness ==
    \E r \in Reqs :
        /\ req[r].pc = "sent" /\ req[r].sends >= 2
        /\ req[r].lastAuthorization = <<"Bearer ", "t1">>
        /\ req[r].authorization = <<"Bearer ", "t2">>
        /\ req[r].requestId.time = now

(***************************************************************************)
(* C14.  When a 401 is handled, the items auth_token and user_data are     *)
(* absent from localStorage afterwards, and the call fails to its caller   *)
(* as Unauthorized: no retry is scheduled and the _retry flag and          *)
(* retryCount stay as they were, whatever their values.                    *)
(***************************************************************************)
C14_UnauthorizedClearsAndGivesUp ==
    [][\A r \in Reqs :
          (/\ FailureHandled(r)
           /\ req'[r].error.present /\ req'[r].error.status = 401)
          => /\ localStorage'.auth_token = Absent
             /\ localStorage'.user_data = Absent
             /\ req'[r].pc = "failed"
             /\ req'[r].category = "Unauthorized"
             /\ req'[r].retry = req[r].retry
             /\ req'[r].retries = req[r].retries
             /\ req'[r].sends = req[r].sends
             /\ retryCount' = retryCount]_vars

\* A first attempt failed as Unauthorized with the retry budget untouched and
\* the store is empty, while another call in flight still carries the
\* credential of the token that was stored.
C14_Witness ==
    \E r, o \in Reqs :
        /\ req[r].pc = "failed" /\ req[r].category = "Unauthorized"
        /\ ~req[r].retry /\ retryCount < maxRetries
        /\ localStorage = SignedOut
        /\ req[o].pc = "sent" /\ req[o].authorization = <<"Bearer ", "t1">>

\* The paths whose text contains '/auth'.
C15_AuthPaths == { <<"/auth">>, <<"/auth", "ors">> }

\* The step replaces the document: the pending timers and the calls are gone.
PageReplaced ==
    /\ redirectTimers # {} /\ redirectTimers' = {}
    /\ \A r \in Reqs : req'[r].pc = "idle"

C16_Row(isLocal, present, status) ==
    IF isLocal THEN "RateLimitLocal"
    ELSE IF present /\ status = 401 THEN "Unauthorized"
    ELSE IF present /\ status = 403 THEN "Forbidden"
    ELSE IF present /\ status = 404 THEN "NotFound"
    ELSE IF present /\ status = 429 THEN "RateLimitServer"
    ELSE IF ~present THEN "NetworkError"
    ELSE IF status >= 500 THEN "ServerError"
    ELSE IF status >= 400 /\ status < 500 THEN "ClientError"
    ELSE "Other"

\* Exactly one message was raised, and its text starts with `text`.
Said(toasts, text) ==
    Len(toasts) = 1 /\ toasts[1][1] = text

(***************************************************************************)
(* C16.  Whatever failure the error handler is handed, what it does is the *)
(* action of the first row of the precedence table the failure matches:    *)
(* the local rejection, 401, 403 and 404 are given up with their own       *)
(* message (401 also empties the credential store); 429 is retried; a      *)
(* failure without response, or with a status of 500 or more, is retried   *)
(* when the _retry flag is unset and retryCount is below maxRetries and is *)
(* given up with its own message otherwise; another status from 400 to 499 *)
(* is given up with the server's message or none; anything else is given   *)
(* up silently.                                                            *)
(***************************************************************************)
C16_FirstMatchWins ==
    [][\A r \in Reqs :
          FailureHandled(r)
          => LET error   == req'[r].error
                 row     == C16_Row(error.isRateLimit, error.present, error.status)
                 toasts  == req'[r].toasts
                 gaveUp  == req'[r].pc = "failed"
                 retried == req'[r].pc = "delay"
                 mayRetry == ~req[r].retry /\ retryCount < maxRetries
             IN  /\ req'[r].category = row
                 /\ row = "RateLimitLocal"
                      => /\ gaveUp /\ retryCount' = retryCount
                         /\ Said(toasts, "Too many requests. Please slow down and try again in a moment.")
                 /\ row = "Unauthorized"
                      => /\ gaveUp /\ Said(toasts, "Session expired")
                         /\ localStorage'.auth_token = Absent
                 /\ row = "Forbidden"
                      => gaveUp /\ Said(toasts, "Access denied")
                 /\ row = "NotFound"
                      => gaveUp /\ (toasts = << >> \/ Said(toasts, "Resource not found."))
                 /\ row = "RateLimitServer"
                      => /\ retried /\ req'[r].n429 = req[r].n429 + 1
                         /\ Said(toasts, "Rate limit exceeded. Retrying in ")
                 /\ row = "NetworkError"
                      => IF mayRetry
                         THEN retried /\ Said(toasts, "Connection failed. Retrying... (")
                         ELSE gaveUp /\ Said(toasts, "Network error. Please check your internet connection.")
                 /\ row = "ServerError"
                      => IF mayRetry
                         THEN retried /\ Said(toasts, "Server error. Retrying... (")
                         ELSE gaveUp /\ Said(toasts, "Server error. Please try again later.")
                 /\ row = "ClientError"
                      => /\ gaveUp /\ retryCount' = 0
                         /\ \/ toasts = << >>
                            \/ toasts = << error.data >>
                            \/ toasts = << <<"Request failed">> >>
                 /\ row = "Other"
                      => gaveUp /\ retryCount' = 0 /\ toasts = << >>]_vars

\* Two failures that match more than one row were handled by the first: a 401
\* (also a status from 400 to 499) as Unauthorized, and a local rejection
\* (also a failure without response) as RateLimitLocal, with no retry although
\* the retry budget allowed one.
C16_Witness ==
    \E r, o \in Reqs :
        /\ req[r].pc = "failed" /\ req[r].error.status = 401
        /\ req[r].category = "Unauthorized"
        /\ Said(req[r].toasts, "Session expired")
        /\ req[o].pc = "failed" /\ req[o].error.isRateLimit /\ ~req[o].error.present
        /\ req[o].category = "RateLimitLocal"
        /\ ~req[o].retry /\ retryCount < maxRetries

\* The failure handled is a 404 of an administrative endpoint.
AdminNotFound(call) ==
    /\ call.error.present /\ call.error.status = 404
    /\ call.url \in { <<"/admin", "/", "users">> }

\* The failure handled is a client error whose message repeats the one of a
\* 401 or a 403.
DuplicateClientError(call) ==
    /\ call.error.present
    /\ call.error.status \in (400..499) \ {401, 403, 404, 429}
    /\ call.error.data \in { <<"Session expired", ": token too old">>,
                              <<"Error: ", "Access denied">> }

\* The failure handled has a status outside 2xx, 4xx and 5xx.
OtherFailure(call) ==
    /\ call.error.present
    /\ call.error.status < 400

(***************************************************************************)
(* C17 as stated.  When a call fails to its caller, the run of the handler *)
(* that rejects it raises exactly one message, unless the failure is a 404 *)
(* of an administrative endpoint or a client error with a duplicate        *)
(* message.                                                                *)
(***************************************************************************)
C17_OneNotificationPerFailure ==
    [][\A r \in Reqs :
          (/\ FailureHandled(r) /\ req'[r].pc = "failed"
           /\ ~AdminNotFound(req'[r]) /\ ~DuplicateClientError(req'[r]))
          => Len(req'[r].toasts) = 1]_vars

(***************************************************************************)
(* C17 as amended.  When a call fails to its caller, the run of the        *)
(* handler that rejects it raises exactly one message, unless the failure  *)
(* is a 404 of an administrative endpoint, a client error with a duplicate *)
(* message, or a response with a status outside 2xx, 4xx and 5xx: in       *)
(* these three cases it raises none.                                       *)
(***************************************************************************)
C17_OneNotificationUnlessSilent ==
    [][\A r \in Reqs :
          (FailureHandled(r) /\ req'[r].pc = "failed")
          => IF \/ AdminNotFound(req'[r])
                \/ DuplicateClientError(req'[r])
                \/ OtherFailure(req'[r])
             THEN Len(req'[r].toasts) = 0
             ELSE Len(req'[r].toasts) = 1]_vars

\* One call failed on a 302 without a message, another on a client error
\* with the server's message.
C17_Witness ==
    \E r, o \in Reqs :
        /\ req[r].pc = "failed" /\ req[r].error.status = 302
        /\ req[r].toasts = << >>
        /\ req[o].pc = "failed" /\ req[o].error.status = 400
        /\ req[o].toasts = << <<"Invalid input">> >>

(***************************************************************************)
(* C18 as stated.  A 404 of an administrative endpoint raises no message,  *)
(* is not retried, and the error the caller receives carries a mark that   *)
(* the error handed to the handler did not; a 404 of another endpoint      *)
(* raises exactly one message.                                             *)
(***************************************************************************)
C18_AdminNotFoundFlagged ==
    [][\A r \in Reqs :
          (/\ FailureHandled(r)
           /\ req'[r].error.present /\ req'[r].error.status = 404)
          => IF AdminNotFound(req'[r])
             THEN /\ req'[r].toasts = << >>
                  /\ req'[r].pc = "failed"
                  /\ req'[r].rejected # req'[r].error
             ELSE Len(req'[r].toasts) = 1]_vars

(***************************************************************************)
(* C18 as amended.  A 404 of an administrative endpoint raises no message  *)
(* and is not retried (the _retry flag and retryCount stay as they were),  *)
(* and the caller receives the error as the transport gave it, status 404, *)
(* with nothing added; a 404 of another endpoint is given up the same way  *)
(* with the one message 'Resource not found.'.                             *)
(***************************************************************************)
C18_AdminNotFoundSilent ==
    [][\A r \in Reqs :
          (/\ FailureHandled(r)
           /\ req'[r].error.present /\ req'[r].error.status = 404)
          => /\ req'[r].pc = "failed"
             /\ req'[r].rejected = req'[r].error
             /\ req'[r].rejected.status = 404
             /\ req'[r].retry = req[r].retry
             /\ req'[r].sends = req[r].sends
             /\ retryCount' = retryCount
             /\ IF AdminNotFound(req'[r])
                THEN req'[r].toasts = << >>
                ELSE req'[r].toasts = << <<"Resource not found.">> >>]_vars

\* A 404 of the administrative endpoint was given up silently with the retry
\* budget untouched; a 404 of the other endpoint was announced.
C18_Witness ==
    \E r, o \in Reqs :
        /\ req[r].pc = "failed" /\ req[r].error.status = 404
        /\ req[r].url = <<"/admin", "/", "users">>
        /\ req[r].toasts = << >>
        /\ ~req[r].retry /\ retryCount < maxRetries
        /\ req[o].pc = "failed" /\ req[o].error.status = 404
        /\ req[o].url = <<"/articles">>
        /\ Len(req[o].toasts) = 1

\* The failure handled for `call` has no response (and is not the local
\* rejection), or has a status of 500 or more.
NetworkOrServerFailure(call) ==
    /\ ~call.error.isRateLimit
    /\ ~call.error.present \/ call.error.status >= 500

(***************************************************************************)
(* C19.  A failure without response or with a status of 500 or more is     *)
(* retried exactly when the call's _retry flag is unset and retryCount is  *)
(* below maxRetries: then, in the step that starts the wait, the flag is   *)
(* set and retryCount is one more than before; otherwise the call fails    *)
(* to its caller and retryCount is 0.                                      *)
(***************************************************************************)
C19_RetryIffFlagUnsetAndBudget ==
    [][\A r \in Reqs :
          (FailureHandled(r) /\ NetworkOrServerFailure(req'[r]))
          => IF ~req[r].retry /\ retryCount < maxRetries
             THEN /\ req'[r].pc = "delay"
                  /\ req'[r].retry
                  /\ req'[r].retries = req[r].retries + 1
                  /\ retryCount' = retryCount + 1
             ELSE /\ req'[r].pc = "failed"
                  /\ req'[r].retry = req[r].retry
                  /\ req'[r].retries = req[r].retries
                  /\ retryCount' = 0]_vars

\* A call was retried after a 5xx, failed with a 5xx again and was given up
\* with the counter back at 0, while the retry of another call had raised it.
C19_Witness ==
    \E r, o \in Reqs :
        /\ req[r].pc = "failed" /\ req[r].error.status >= 500
        /\ req[r].retry /\ req[r].retries = 1 /\ req[r].sends = 2
        /\ retryCount = 0
        /\ req[o].pc = "delay" /\ req[o].retries = 1

(***************************************************************************)
(* C20.  With retryCount at maxRetries, raised there by the retries of     *)
(* other calls, a call that fails for the first time without response or   *)
(* with a status of 500 or more (flag unset, never retried) is given up    *)
(* at once: no retry is scheduled for it.                                  *)
(***************************************************************************)
C20_SharedBudgetExhausted ==
    [][\A r \in Reqs :
          (/\ FailureHandled(r) /\ NetworkOrServerFailure(req'[r])
           /\ ~req[r].retry /\ req[r].retries = 0
           /\ retryCount = maxRetries)
          => /\ req'[r].pc = "failed"
             /\ ~req'[r].retry
             /\ req'[r].retries = 0
             /\ req'[r].sends = req[r].sends]_vars

\* A call failed on its first and only attempt with a network error and was
\* given up without any retry.
C20_Witness ==
    \E r \in Reqs :
        /\ req[r].pc = "failed" /\ req[r].category = "NetworkError"
        /\ ~req[r].error.present
        /\ ~req[r].retry /\ req[r].retries = 0 /\ req[r].sends = 1

\* The step hands a 429 answer for r to the error handler.
Handled429(r) ==
    /\ FailureHandled(r)
    /\ req'[r].error.present /\ req'[r].error.status = 429

(***************************************************************************)
(* C21.  Handling a 429 leaves in the queue exactly the last keepLast      *)
(* records of the queue as it was (keepLast is 50 in the source): the new  *)
(* queue has min(keepLast, previous length) records, and they are the      *)
(* records at the end of the previous queue, in the same order; a queue of *)
(* keepLast or fewer records is unchanged.  Records are not purged by age  *)
(* in this step.                                                           *)
(***************************************************************************)
C21_TrimKeepsLast ==
    [][\A r \in Reqs :
          Handled429(r)
          => LET before == Len(requestQueue)
                 after  == Len(requestQueue')
             IN  /\ after = Min(keepLast, before)
                 /\ \A i \in 1..after :
                        requestQueue'[i] = requestQueue[before - after + i]
                 /\ before <= keepLast => requestQueue' = requestQueue]_vars

\* Admissions at two different times had filled the queue beyond keepLast; a
\* 429 was handled since the last of them, and the queue holds the records of
\* the latest admissions only.
C21_Witness ==
    \E r \in Reqs :
        /\ req[r].pc = "delay" /\ req[r].category = "RateLimitServer"
        /\ sinceTrim = 0
        /\ Len(admitLog) > keepLast
        /\ admitLog[1] < admitLog[Len(admitLog)]
        /\ Len(requestQueue) = keepLast
        /\ \A i \in 1..keepLast :
               requestQueue[i].timestamp = admitLog[Len(admitLog) - keepLast + i]
        /\ requestQueue[1].timestamp > admitLog[1]

(***************************************************************************)
(* C22.  A call to an endpoint of the critical allow-list is admitted and  *)
(* recorded like any other: after the request interceptor has run for it   *)
(* the queue is the records less than windowMs old plus one record with    *)
(* the current time.  These records count for the other calls: whenever    *)
(* the queue holds maxRequests or more records less than windowMs old,     *)
(* whoever they were admitted for, the next non-critical call is rejected. *)
(***************************************************************************)
C22_CriticalRecorded ==
    [][\A r \in Reqs :
          InterceptorRuns(r)
          => /\ req'[r].url \in CriticalSamples
                  => /\ req'[r].pc = "sent"
                     /\ Len(requestQueue') = LiveRecords + 1
                     /\ requestQueue'[Len(requestQueue')].timestamp = now
             /\ (req'[r].url \notin CriticalSamples /\ LiveRecords >= maxRequests)
                  => req'[r].pc = "rejected"]_vars

\* Every admission so far was made for one call to a critical endpoint (its
\* attempts are all the admissions there are, and none is older than the
\* window); they fill the queue, and a non-critical call that was never
\* dispatched is rejected.
C22_Witness ==
    \E r, o \in Reqs :
        /\ req[o].url \in CriticalSamples
        /\ req[o].sends >= maxRequests
        /\ Len(admitLog) = req[o].sends
        /\ sinceTrim = Len(admitLog)
        /\ Len(requestQueue) = Len(admitLog)
        /\ now < windowMs
        /\ req[r].url \notin CriticalSamples
        /\ req[r].pc = "rejected" /\ req[r].sends = 0

\* The records of `queue` less than windowMs old at time t, in their order.
C23_Unexpired(queue, t) ==
    LET unexpired(rec) == rec.timestamp > t - windowMs
    IN  SelectSeq(queue, unexpired)

(***************************************************************************)
(* C23.  The queue grows only when the request interceptor admits a        *)
(* request, and then by exactly one record on top of the records less than *)
(* windowMs old.  A request the interceptor rejects leaves the queue with  *)
(* exactly those records (the expired ones are dropped, none is added),    *)
(* and neither its rejection nor the error handler's run for it changes    *)
(* retryCount or localStorage; the handler's run leaves the queue as it    *)
(* is.                                                                     *)
(***************************************************************************)
C23_OnlyAdmissionAppends ==
    [][/\ Len(requestQueue') > Len(requestQueue)
            => \E r \in Reqs : InterceptorRuns(r) /\ req'[r].pc = "sent"
       /\ \A r \in Reqs :
            /\ (InterceptorRuns(r) /\ req'[r].pc = "sent")
                  => /\ Len(requestQueue') = Len(C23_Unexpired(requestQueue, now)) + 1
                     /\ SubSeq(requestQueue', 1, Len(requestQueue') - 1)
                            = C23_Unexpired(requestQueue, now)
            /\ (InterceptorRuns(r) /\ req'[r].pc = "rejected")
                  => /\ requestQueue' = C23_Unexpired(requestQueue, now)
                     /\ retryCount' = retryCount
                     /\ localStorage' = localStorage
            /\ (req[r].pc = "rejected" /\ FailureHandled(r))
                  => /\ requestQueue' = requestQueue
                     /\ retryCount' = retryCount
                     /\ localStorage' = localStorage]_vars

\* A request was rejected by the admission check a whole window after the
\* first admission: the record of that admission (of a call that is still
\* waiting for its retry) is gone from the queue, no record was added, and
\* the handler has given up on the request with retryCount still raised by
\* that retry and the token still in the store.
C23_Witness ==
    \E r, o \in Reqs :
        /\ req[r].pc = "failed" /\ req[r].category = "RateLimitLocal"
        /\ req[r].sends = 0
        /\ now >= windowMs
        /\ Len(requestQueue) = maxRequests
        /\ \A i \in DOMAIN requestQueue : requestQueue[i].timestamp > 0
        /\ \A i \in DOMAIN requestQueue : requestQueue[i].timestamp < now
        /\ retryCount > 0
        /\ localStorage.auth_token \in Tokens
        /\ req[o].pc = "delay" /\ req[o].requestId.time = 0

\* The step starts a new call in slot r (the previous one, if any, is over).
NewCallStarts(r) ==
    req[r].pc \in {"idle", "done", "failed"} /\ InterceptorRuns(r)

(***************************************************************************)
(* C24.  Once the _retry flag of a call is set it stays set as long as the *)
(* call lives, through re-issues and 429 answers; so a call is retried     *)
(* after a network or 5xx failure at most once, and a call that has        *)
(* received no 429 is dispatched at most twice: the answer to its second   *)
(* attempt ends it, as a success or as a failure to its caller.            *)
(***************************************************************************)
C24_RetriedAtMostOnce ==
    [][\A r \in Reqs :
          /\ (req[r].retry /\ ~NewCallStarts(r)) => req'[r].retry
          /\ req'[r].retries <= 1
          /\ req'[r].retries = 1 => req'[r].retry
          /\ req'[r].n429 = 0 => req'[r].sends <= 2
          /\ (/\ req[r].pc = "sent" /\ req[r].sends = 2 /\ req[r].n429 = 0
              /\ req'[r] # req[r] /\ req'[r].n429 = 0)
                => req'[r].pc \in {"done", "failed"}]_vars

\* A call was retried after a network failure, then answered with a 429 and
\* re-issued, then failed with a 5xx or a network failure again: it was given
\* up on its third attempt, its flag still set, its one retry used.
C24_Witness ==
    \E r \in Reqs :
        /\ req[r].pc = "failed" /\ req[r].category \in RetriedCategories
        /\ req[r].retry /\ req[r].retries = 1
        /\ req[r].n429 = 1 /\ req[r].sends = 3

\* The step admits r's request: the request interceptor runs and dispatches it.
Admitted(r) ==
    InterceptorRuns(r) /\ req'[r].pc = "sent"

(***************************************************************************)
(* C25.  A non-critical request is admitted only while the queue holds     *)
(* fewer than maxRequests records less than windowMs old, and right after  *)
(* its admission the queue holds at most maxRequests records; a step after *)
(* which the queue is longer than before and longer than maxRequests is    *)
(* the admission of a request to a critical endpoint.                      *)
(***************************************************************************)
C25_WindowWithinCapacity ==
    [][/\ \A r \in Reqs :
            (Admitted(r) /\ req'[r].url \notin CriticalSamples)
            => /\ LiveRecords < maxRequests
               /\ Len(requestQueue') <= maxRequests
       /\ (/\ Len(requestQueue') > maxRequests
           /\ Len(requestQueue') > Len(requestQueue))
            => \E r \in Reqs : Admitted(r) /\ req'[r].url \in CriticalSamples]_vars

\* A non-critical request was admitted as the last the capacity allows: its
\* record is the maxRequests-th of the queue; a critical request admitted
\* after it made the queue longer than maxRequests.
C25_Witness ==
    \E r, o \in Reqs :
        /\ req[r].pc = "sent" /\ req[r].url \notin CriticalSamples
        /\ req[o].pc = "sent" /\ req[o].url \in CriticalSamples
        /\ Len(requestQueue) = maxRequests + 1
        /\ requestQueue[maxRequests].timestamp = req[r].requestId.time
        /\ requestQueue[maxRequests + 1].timestamp = req[o].requestId.time
        /\ req[r].requestId.time < req[o].requestId.time
        /\ \A i \in DOMAIN requestQueue : now - requestQueue[i].timestamp < windowMs

(***************************************************************************)
(* C26.  The run of the error handler for a 429 changes neither retryCount *)
(* nor the call's _retry flag, whatever their values, and neither does the *)
(* re-issue that follows the wait: a 429 retry takes nothing from the      *)
(* retry budget and gives nothing back, and the call's count of retries    *)
(* after network and 5xx failures stays as it was.                         *)
(***************************************************************************)
C26_RateLimitLeavesBudget ==
    [][\A r \in Reqs :
          /\ Handled429(r)
                => /\ retryCount' = retryCount
                   /\ req'[r].retry = req[r].retry
                   /\ req'[r].retries = req[r].retries
          /\ (Reissued(r) /\ req[r].category = "RateLimitServer")
                => /\ retryCount' = retryCount
                   /\ req'[r].retry = req[r].retry
                   /\ req'[r].retries = req[r].retries]_vars

\* A call has been answered with a 429 twice and is waiting for its second
\* 429 retry with its flag unset, while retryCount is still at the value the
\* retry of another call, which is still waiting, had raised it to.
C26_Witness ==
    \E r, o \in Reqs :
        /\ req[r].pc = "delay" /\ req[r].category = "RateLimitServer"
        /\ req[r].n429 = 2 /\ req[r].sends = 2
        /\ ~req[r].retry /\ req[r].retries = 0
        /\ req[o].pc = "delay" /\ req[o].category \in RetriedCategories
        /\ req[o].retries = 1
        /\ retryCount = 1

\* The step hands a 401 answer for r to the error handler.
Handled401(r) ==
    /\ FailureHandled(r)
    /\ req'[r].error.present /\ req'[r].error.status = 401

(***************************************************************************)
(* C27 as stated.  A request that was tagged with a bearer credential and  *)
(* is re-issued while the credential store holds no token (a 401 of        *)
(* another request has emptied it) carries, after the re-issue, the        *)
(* credential of its first attempt.                                        *)
(***************************************************************************)
C27_KeepsOriginalCredential ==
    [][\A o \in Reqs :
          (/\ Reissued(o)
           /\ localStorage.auth_token = Absent
           /\ req[o].firstAuthorization # NoAuthorization)
          => req'[o].authorization = req[o].firstAuthorization]_vars

(***************************************************************************)
(* C27 as amended.  The run of the error handler for a 401 of one request  *)
(* empties the credential store and leaves every other request, its        *)
(* Authorization header included, as it is.  A request that is re-issued   *)
(* while the store holds no token keeps the Authorization header of its    *)
(* previous attempt, which is the credential of the token stored when it   *)
(* was last tagged, not always the one of its first attempt; in no case    *)
(* does a re-issue remove the header: with a token in the store an         *)
(* admitted re-issue carries that token's credential.                      *)
(***************************************************************************)
C27_KeepsLastCredential ==
    [][\A o \in Reqs :
          /\ \A r \in Reqs \ {o} :
                Handled401(r)
                => /\ localStorage'.auth_token = Absent
                   /\ req'[o] = req[o]
          /\ Reissued(o)
                => /\ localStorage.auth_token = Absent
                        => req'[o].authorization = req[o].authorization
                   /\ req[o].authorization # << >>
                        => req'[o].authorization # << >>
                   /\ (localStorage.auth_token \in Tokens /\ req'[o].pc = "sent")
                        => req'[o].authorization = <<"Bearer ", localStorage.auth_token>>
                   /\ req'[o].pc = "sent"
                        => req'[o].lastAuthorization = req[o].authorization]_vars

\* A request whose first attempt carried the credential of t1 and whose
\* second the one of t2 was re-issued a second time after a 401 of another
\* request had emptied the store: it is at the transport with the
\* credential of t2.
C27_Witness ==
    \E r, o \in Reqs :
        /\ req[r].pc = "failed" /\ req[r].category = "Unauthorized"
        /\ localStorage = SignedOut
        /\ req[o].pc = "sent" /\ req[o].sends = 3
        /\ req[o].firstAuthorization = <<"Bearer ", "t1">>
        /\ req[o].lastAuthorization = <<"Bearer ", "t2">>
        /\ req[o].authorization = <<"Bearer ", "t2">>

====
